---- MODULE Spec2Model ----
(***************************************************************************)
(* A model of signals.py: the uniform timebase, the sine and triangle      *)
(* generators, and the three time-domain transforms (time_shift,           *)
(* time_scale, time_shift_and_scale), together with the caller that        *)
(* chains them (run.py) or feeds them hand-built arrays (test.py).         *)
(*                                                                         *)
(* Numbers.  The program computes in binary floating point (Python float   *)
(* and numpy float64: round to nearest, ties to even).  The model keeps    *)
(* that arithmetic and only shortens the format: a number is an integer k  *)
(* standing for k / D, D = 2^FracBits, and it is a value of the format     *)
(* when k = m * 2^e with m < 2^Precision.  Every arithmetic operation of   *)
(* the source is the exact operation followed by one rounding (Round), as  *)
(* in IEEE 754.  The exponent range is unbounded upwards (no overflow to   *)
(* infinity) and gradual below 1/D; the inputs are chosen so that 1/fs is  *)
(* never rounded to zero, which binary64 cannot do for a finite fs either. *)
(*                                                                         *)
(* Objects.  numpy arrays are objects: heap is the object store, an array  *)
(* is named by its index in heap, and a function that returns one of its   *)
(* arguments returns the same index.                                       *)
(***************************************************************************)
EXTENDS Integers, Sequences, FiniteSets

(***************************************************************************)
(* Bounds of the model.                                                    *)
(***************************************************************************)
Precision == 4      \* significand bits of the number format
FracBits == 6       \* the grid: one unit is 1 / 2^FracBits
MaxCalls == 2       \* transforms chained after a generator
MaxLen == 2         \* longest hand-built array handed to a transform

RECURSIVE Pow2(_)
Pow2(n) == IF n = 0 THEN 1 ELSE 2 * Pow2(n - 1)

D == Pow2(FracBits)

Abs(x) == IF x < 0 THEN -x ELSE x
Sgn(x) == IF x < 0 THEN -1 ELSE IF x > 0 THEN 1 ELSE 0

(***************************************************************************)
(* Floating-point arithmetic.                                              *)
(***************************************************************************)
\* The spacing of the format's values around a / d (a >= 0, d > 0).
RECURSIVE Quantum(_, _, _)
Quantum(a, d, q) ==
    IF a < d * q * Pow2(Precision) THEN q ELSE Quantum(a, d, 2 * q)

\* a / d rounded to the nearest integer, ties to the even one.
RoundHalfEven(a, d) ==
    LET f == a \div d
        r == a % d
    IN  IF 2 * r < d THEN f
        ELSE IF 2 * r > d THEN f + 1
        ELSE IF f % 2 = 0 THEN f ELSE f + 1

\* n / d (d > 0, in grid units) rounded to a value of the format.
Round(n, d) ==
    LET a == Abs(n)
        q == Quantum(a, d, 1)
    IN  Sgn(n) * RoundHalfEven(a, d * q) * q

FAdd(x, y) == Round(x + y, 1)
FSub(x, y) == Round(x - y, 1)
FMul(x, y) == Round(x * y, D)
FDiv(x, y) == IF y < 0 THEN Round(-(x * D), -y) ELSE Round(x * D, y)

\* math.ceil of a value, as an integer count.
Ceil(x) == -((-x) \div D)

\* numpy's float remainder x % 1.0: fmod (exact, sign of x), then one added
\* 1.0 when the remainder is negative; that addition rounds.
Mod1(x) ==
    LET m == Sgn(x) * (Abs(x) % D)
    IN  IF m < 0 THEN FAdd(m, D) ELSE m

\* np.pi, and np.sin by Bhaskara's rational approximation on the grid (the
\* library's sin is transcendental; its result lies in [-1, 1] as here).
Pi == Round(355 * D, 113)
SinHalf(x) == Round(16 * x * (Pi - x) * D, 5 * Pi * Pi - 4 * x * (Pi - x))
Sin(x) ==
    LET r == x % (2 * Pi)
    IN  IF r <= Pi THEN SinHalf(r) ELSE -SinHalf(r - Pi)

(***************************************************************************)
(* np.arange(start, stop, step) for floats: the length is                  *)
(* ceil((stop - start) / step); the first two values are start and         *)
(* start + step, and value i is start + i * delta with                     *)
(* delta = (start + step) - start.                                         *)
(***************************************************************************)
arange(start, stop, step) ==
    LET n == Ceil(FDiv(FSub(stop, start), step))
        next == FAdd(start, step)
        delta == FSub(next, start)
    IN  [i \in 1..n |->
            IF i = 1 THEN start
            ELSE IF i = 2 THEN next
            ELSE FAdd(start, Round((i - 1) * delta, 1))]

(***************************************************************************)
(* _make_timebase: the two validations, then the grid.  err is "" on       *)
(* success; every error of signals.py is a ValueError, told apart here by  *)
(* the name the specification gives it.                                    *)
(***************************************************************************)
\* Mutant: the time range is rejected only when reversed, not when empty.
make_timebase_check_strict(t_start, t_end, fs) ==
    IF fs <= 0 THEN "InvalidSamplingRate"
    ELSE IF t_end < t_start THEN "InvalidTimeRange"
    ELSE ""

make_timebase_check(t_start, t_end, fs) ==
    IF fs <= 0 THEN "InvalidSamplingRate"
    ELSE IF t_end <= t_start THEN "InvalidTimeRange"
    ELSE ""

make_timebase(t_start, t_end, fs) ==
    LET e == make_timebase_check(t_start, t_end, fs)
    IN  IF e # "" THEN [err |-> e, t |-> << >>]
        ELSE [err |-> "", t |-> arange(t_start, t_end, FDiv(D, fs))]

(***************************************************************************)
(* sine_signal: y = amp * sin(2 * pi * freq * t + phase), elementwise, in  *)
(* the source's order of evaluation.                                       *)
(***************************************************************************)
sine_value(freq, amp, phase, ti) ==
    FMul(amp, Sin(FAdd(FMul(FMul(FMul(2 * D, Pi), freq), ti), phase)))

sine_signal(freq, t0, t1, amp, fs, phase) ==
    LET tb == make_timebase(t0, t1, fs)
    IN  [err |-> tb.err,
         t |-> tb.t,
         frac |-> << >>,
         y |-> [i \in 1..Len(tb.t) |-> sine_value(freq, amp, phase, tb.t[i])]]

(***************************************************************************)
(* triangle_signal: frac = (freq * t) % 1.0, the shape                     *)
(* 2.0 * |2.0 * frac - 1.0| - 1.0, and y = amp * shape.                    *)
(***************************************************************************)
tri_frac(freq, ti) == Mod1(FMul(freq, ti))

\* Mutant: the fold is taken the other way up.
tri_shape_inverted(frac) ==
    FSub(D, FMul(2 * D, Abs(FSub(FMul(2 * D, frac), D))))

tri_shape(frac) == FSub(FMul(2 * D, Abs(FSub(FMul(2 * D, frac), D))), D)

triangle_signal(freq, t0, t1, amp, fs) ==
    LET tb == make_timebase(t0, t1, fs)
        fr == [i \in 1..Len(tb.t) |-> tri_frac(freq, tb.t[i])]
    IN  [err |-> tb.err,
         t |-> tb.t,
         frac |-> fr,
         y |-> [i \in 1..Len(tb.t) |-> FMul(amp, tri_shape(fr[i]))]]

(***************************************************************************)
(* The state: the object store, the caller's current (t, y) pair, the      *)
(* record of the latest call, the length and sampling rate of the          *)
(* generator's output, the number of transforms the caller may still       *)
(* apply, and whether the caller has written into a returned array.        *)
(***************************************************************************)
VARIABLES heap, cur, call, gen, budget, written

vars == <<heap, cur, call, gen, budget, written>>

NoPair == [t |-> 0, y |-> 0]

NoGen == [len |-> 0, fs |-> 0]

NoCall ==
    [op |-> "none", err |-> "",
     t_start |-> 0, t_end |-> 0, fs |-> 0, freq |-> 0, amp |-> 0, phase |-> 0,
     tau |-> 0, a |-> 0, fill |-> 0,
     in_t |-> 0, in_y |-> 0, in_t_val |-> << >>, in_y_val |-> << >>,
     in_t_after |-> << >>, in_y_after |-> << >>,
     out_t |-> 0, out_y |-> 0, out_t_val |-> << >>, out_y_val |-> << >>,
     frac |-> << >>]

(***************************************************************************)
(* Inputs of the generators (grid units: D is 1.0).                        *)
(***************************************************************************)
Windows == {<<-D, 0>>, <<0, D>>, <<D, 2 * D>>, <<D, D>>, <<D, 0>>}
FsValues == {-D, 0, 2 * D, 5 * D}
FreqValues == {-2, D}
AmpValues == {D, -2 * D}
PhaseValues == {0, D}

Init ==
    /\ heap = << >>
    /\ cur = NoPair
    /\ call = NoCall
    /\ gen = NoGen
    /\ budget = MaxCalls
    /\ written = FALSE

\* A session opens with one call: a generator, or (as test.py does)
\* _make_timebase itself, whose result is not kept as a pair.
CallMakeTimebase ==
    /\ call.op = "none"
    /\ \E w \in Windows, fs \in FsValues :
         LET r == make_timebase(w[1], w[2], fs)
         IN  /\ call' = [NoCall EXCEPT !.op = "make_timebase", !.err = r.err,
                           !.t_start = w[1], !.t_end = w[2], !.fs = fs,
                           !.out_t = IF r.err = "" THEN Len(heap) + 1 ELSE 0,
                           !.out_t_val = r.t]
             /\ heap' = IF r.err = "" THEN Append(heap, r.t) ELSE heap
    /\ UNCHANGED <<cur, gen, budget, written>>

\* A generator's result becomes the caller's pair; an error leaves none.
Generated(op, r, w, fs, freq, amp, phase) ==
    /\ call' = [NoCall EXCEPT !.op = op, !.err = r.err,
                  !.t_start = w[1], !.t_end = w[2], !.fs = fs,
                  !.freq = freq, !.amp = amp, !.phase = phase,
                  !.out_t = IF r.err = "" THEN Len(heap) + 1 ELSE 0,
                  !.out_y = IF r.err = "" THEN Len(heap) + 2 ELSE 0,
                  !.out_t_val = r.t, !.out_y_val = r.y, !.frac = r.frac]
    /\ heap' = IF r.err = "" THEN heap \o <<r.t, r.y>> ELSE heap
    /\ cur' = IF r.err = "" THEN [t |-> Len(heap) + 1, y |-> Len(heap) + 2]
              ELSE cur
    /\ gen' = IF r.err = "" THEN [len |-> Len(r.t), fs |-> fs] ELSE gen
    /\ UNCHANGED <<budget, written>>

CallSineSignal ==
    /\ call.op = "none"
    /\ \E w \in Windows, fs \in FsValues, freq \in FreqValues,
          amp \in AmpValues, phase \in PhaseValues :
         Generated("sine_signal",
                   sine_signal(freq, w[1], w[2], amp, fs, phase),
                   w, fs, freq, amp, phase)

CallTriangleSignal ==
    /\ call.op = "none"
    /\ \E w \in Windows, fs \in FsValues, freq \in FreqValues,
          amp \in AmpValues :
         Generated("triangle_signal",
                   triangle_signal(freq, w[1], w[2], amp, fs),
                   w, fs, freq, amp, 0)

(***************************************************************************)
(* np.interp(x, xp, fp, left, right) at one query x.  The index search is  *)
(* numpy's linear search (the one it runs on short arrays; its binary      *)
(* search returns the same index on ascending xp): the last j with         *)
(* xp[j] <= x.  An empty xp is a ValueError of np.interp itself.           *)
(***************************************************************************)
RECURSIVE linear_search(_, _, _)
linear_search(key, arr, i) ==
    IF i <= Len(arr) /\ key >= arr[i] THEN linear_search(key, arr, i + 1)
    ELSE i - 1

\* Mutant: a query equal to the last sample time is taken as outside.
interp_open_right(x, xp, fp, left, right) ==
    LET n == Len(xp)
    IN  IF n = 1
        THEN IF x < xp[1] THEN left ELSE IF x > xp[1] THEN right ELSE fp[1]
        ELSE IF x >= xp[n] THEN right
        ELSE IF x < xp[1] THEN left
        ELSE LET j == linear_search(x, xp, 2)
             IN  IF xp[j] = x THEN fp[j]
                 ELSE LET slope == FDiv(FSub(fp[j + 1], fp[j]),
                                        FSub(xp[j + 1], xp[j]))
                      IN  FAdd(FMul(slope, FSub(x, xp[j])), fp[j])

interp(x, xp, fp, left, right) ==
    LET n == Len(xp)
    IN  IF n = 1
        THEN IF x < xp[1] THEN left ELSE IF x > xp[1] THEN right ELSE fp[1]
        ELSE IF x > xp[n] THEN right
        ELSE IF x < xp[1] THEN left
        ELSE LET j == linear_search(x, xp, 2)
             IN  IF j = n THEN fp[j]
                 ELSE IF xp[j] = x THEN fp[j]
                 ELSE LET slope == FDiv(FSub(fp[j + 1], fp[j]),
                                        FSub(xp[j + 1], xp[j]))
                      IN  FAdd(FMul(slope, FSub(x, xp[j])), fp[j])

\* Mutant: the last query is dropped from the result.
np_interp_short(q, xp, fp, left, right) ==
    IF Len(xp) = 0 THEN [err |-> "EmptySamples", y |-> << >>]
    ELSE [err |-> "",
          y |-> [i \in 1..Len(q) - 1 |-> interp(q[i], xp, fp, left, right)]]

np_interp(q, xp, fp, left, right) ==
    IF Len(xp) = 0 THEN [err |-> "EmptySamples", y |-> << >>]
    ELSE [err |-> "",
          y |-> [i \in 1..Len(q) |-> interp(q[i], xp, fp, left, right)]]

(***************************************************************************)
(* The transforms.  Each takes the object store and the ids of its two     *)
(* argument arrays and gives the error (if any), the object store at       *)
(* return, and the ids of the two arrays it returns.  A new array is       *)
(* appended to the store; a returned argument keeps its id.                *)
(***************************************************************************)
Failed(h, e) == [err |-> e, heap |-> h, t |-> 0, y |-> 0]

\* Mutant: the shift is applied with the wrong sign.
shift_times_back(t, tau) == [i \in 1..Len(t) |-> FSub(t[i], tau)]

shift_times(t, tau) == [i \in 1..Len(t) |-> FAdd(t[i], tau)]

\* Mutant: the lengths are not compared.
time_shift_unchecked(h, t, y, tau) ==
    [err |-> "", heap |-> Append(h, [i \in 1..Len(h[t]) |-> FAdd(h[t][i], tau)]),
     t |-> Len(h) + 1, y |-> y]

time_shift(h, t, y, tau) ==
    IF Len(h[t]) # Len(h[y]) THEN Failed(h, "LengthMismatch")
    ELSE [err |-> "", heap |-> Append(h, shift_times(h[t], tau)),
          t |-> Len(h) + 1, y |-> y]

scale_query(t, a) == [i \in 1..Len(t) |-> FMul(a, t[i])]

\* Mutant: the time grid is returned as a copy.
time_scale_copy(h, t, y, a, fill) ==
    IF a = 0 THEN [err |-> "InvalidScaleFactor", heap |-> h, t |-> 0, y |-> 0]
    ELSE IF Len(h[t]) # Len(h[y])
    THEN [err |-> "LengthMismatch", heap |-> h, t |-> 0, y |-> 0]
    ELSE IF Len(h[t]) = 0
    THEN [err |-> "EmptySamples", heap |-> h, t |-> 0, y |-> 0]
    ELSE [err |-> "",
          heap |-> h \o <<h[t], [i \in 1..Len(h[t]) |->
                                   interp(FMul(a, h[t][i]), h[t], h[y],
                                          fill, fill)]>>,
          t |-> Len(h) + 1, y |-> Len(h) + 2]

time_scale(h, t, y, a, fill) ==
    IF a = 0 THEN Failed(h, "InvalidScaleFactor")
    ELSE IF Len(h[t]) # Len(h[y]) THEN Failed(h, "LengthMismatch")
    ELSE LET r == np_interp(scale_query(h[t], a), h[t], h[y], fill, fill)
         IN  IF r.err # "" THEN Failed(h, r.err)
             ELSE [err |-> "", heap |-> Append(h, r.y),
                   t |-> t, y |-> Len(h) + 1]

\* Mutant: the shift is subtracted before the scaling, a * (t - tau).
shift_scale_query_inner(t, tau, a) ==
    [i \in 1..Len(t) |-> FMul(a, FSub(t[i], tau))]

shift_scale_query(t, tau, a) ==
    [i \in 1..Len(t) |-> FSub(FMul(a, t[i]), tau)]

time_shift_and_scale(h, t, y, tau, a, fill) ==
    IF a = 0 THEN Failed(h, "InvalidScaleFactor")
    ELSE IF Len(h[t]) # Len(h[y]) THEN Failed(h, "LengthMismatch")
    ELSE LET r == np_interp(shift_scale_query(h[t], tau, a),
                            h[t], h[y], fill, fill)
         IN  IF r.err # "" THEN Failed(h, r.err)
             ELSE [err |-> "", heap |-> Append(h, r.y),
                   t |-> t, y |-> Len(h) + 1]

(***************************************************************************)
(* Inputs of the transforms.                                               *)
(***************************************************************************)
TauValues == {D \div 4, 16 * D}
ScaleValues == {0, D \div 2, 2 * D}
FillValues == {0, -D}
WriteValues == {7 * D}

\* The caller applies a transform to its pair and keeps the result; a
\* failed call returns nothing and the caller keeps the pair it had.
Transformed(op, r, tau, a, fill) ==
    /\ call' = [NoCall EXCEPT !.op = op, !.err = r.err,
                  !.tau = tau, !.a = a, !.fill = fill,
                  !.in_t = cur.t, !.in_y = cur.y,
                  !.in_t_val = heap[cur.t], !.in_y_val = heap[cur.y],
                  !.in_t_after = r.heap[cur.t], !.in_y_after = r.heap[cur.y],
                  !.out_t = r.t, !.out_y = r.y,
                  !.out_t_val = IF r.err = "" THEN r.heap[r.t] ELSE << >>,
                  !.out_y_val = IF r.err = "" THEN r.heap[r.y] ELSE << >>]
    /\ heap' = r.heap
    /\ cur' = IF r.err = "" THEN [t |-> r.t, y |-> r.y] ELSE cur
    /\ budget' = budget - 1
    /\ UNCHANGED <<gen, written>>

CanTransform == cur # NoPair /\ budget > 0 /\ ~written

CallTimeShift ==
    /\ CanTransform
    /\ \E tau \in TauValues :
         Transformed("time_shift", time_shift(heap, cur.t, cur.y, tau),
                     tau, 0, 0)

CallTimeScale ==
    /\ CanTransform
    /\ \E a \in ScaleValues, fill \in FillValues :
         Transformed("time_scale", time_scale(heap, cur.t, cur.y, a, fill),
                     0, a, fill)

CallTimeShiftAndScale ==
    /\ CanTransform
    /\ \E tau \in TauValues, a \in ScaleValues, fill \in FillValues :
         Transformed("time_shift_and_scale",
                     time_shift_and_scale(heap, cur.t, cur.y, tau, a, fill),
                     tau, a, fill)

Transforms == {"time_shift", "time_scale", "time_shift_and_scale"}

\* The caller's last step: an in-place write into one of the two arrays the
\* latest transform returned.
CallerWrite ==
    /\ call.op \in Transforms
    /\ call.err = ""
    /\ ~written
    /\ \E obj \in {cur.t, cur.y}, v \in WriteValues :
         /\ Len(heap[obj]) >= 1
         /\ heap' = [heap EXCEPT ![obj][1] = v]
    /\ written' = TRUE
    /\ UNCHANGED <<cur, call, gen, budget>>

Next ==
    \/ CallMakeTimebase
    \/ CallSineSignal
    \/ CallTriangleSignal
    \/ CallTimeShift
    \/ CallTimeScale
    \/ CallTimeShiftAndScale
    \/ CallerWrite

Spec == Init /\ [][Next]_vars

(***************************************************************************)
(* Direct calls on arrays the caller built by hand (test.py): any          *)
(* ascending t and any y of up to MaxLen samples, of equal length or not,  *)
(* and one transform applied to them.                                      *)
(***************************************************************************)
ApiTimes == {0, D \div 4, D \div 2, D}
ApiValues == {0, D, 3 * D}

SeqsUpTo(S, n) == UNION {[1..k -> S] : k \in 0..n}

Ascending(t) == \A i \in 1..Len(t) - 1 : t[i] <= t[i + 1]

InitApi ==
    /\ \E t \in SeqsUpTo(ApiTimes, MaxLen), y \in SeqsUpTo(ApiValues, MaxLen) :
         /\ Ascending(t)
         /\ heap = <<t, y>>
    /\ cur = [t |-> 1, y |-> 2]
    /\ call = NoCall
    /\ gen = NoGen
    /\ budget = 1
    /\ written = FALSE

NextApi == CallTimeShift \/ CallTimeScale \/ CallTimeShiftAndScale

SpecApi == InitApi /\ [][NextApi]_vars

(***************************************************************************)
(* The claims.                                                             *)
(***************************************************************************)
Generators == {"sine_signal", "triangle_signal"}

TimebaseCalls == Generators \cup {"make_timebase"}

\* ceil(n / d) in exact arithmetic (d > 0).
ExactCeil(n, d) == -((-n) \div d)

\* C1: for fs > 0 and t_start < t_end the timebase starts at t_start, has
\* exactly ceil((t_end - t_start) * fs) samples (N samples when that
\* product is the integer N), and every sample is strictly less than t_end.
\* (The claim's spacing of exactly 1/fs is read up to the rounding of the
\* arithmetic and is not part of this formula.)
C1_TimebaseExact ==
    (call.op \in TimebaseCalls /\ call.fs > 0 /\ call.t_start < call.t_end) =>
        LET t == call.out_t_val
        IN  /\ call.err = ""
            /\ Len(t) = ExactCeil((call.t_end - call.t_start) * call.fs, D * D)
            /\ t[1] = call.t_start
            /\ \A i \in 1..Len(t) : t[i] < call.t_end

\* C2: _make_timebase, sine_signal and triangle_signal raise the validation
\* error exactly when fs <= 0 or t_end <= t_start (equality included); then
\* nothing is returned, and there is no other error.
C2_ValidationErrors ==
    call.op \in TimebaseCalls =>
        /\ call.fs <= 0 => call.err = "InvalidSamplingRate"
        /\ (call.fs > 0 /\ call.t_end <= call.t_start)
               => call.err = "InvalidTimeRange"
        /\ (call.fs > 0 /\ call.t_end > call.t_start) => call.err = ""
        /\ call.err # "" =>
               /\ call.out_t = 0 /\ call.out_y = 0
               /\ call.out_t_val = << >> /\ call.out_y_val = << >>
               /\ heap = << >> /\ cur = NoPair
        /\ (call.err = "" /\ call.op \in Generators) =>
               /\ cur = [t |-> call.out_t, y |-> call.out_y]
               /\ heap[cur.t] = call.out_t_val
               /\ heap[cur.y] = call.out_y_val
               /\ Len(call.out_t_val) >= 1
               /\ Len(call.out_y_val) = Len(call.out_t_val)

C2_Witness ==
    /\ call.op = "triangle_signal"
    /\ call.fs > 0
    /\ call.t_end = call.t_start
    /\ call.err = "InvalidTimeRange"

\* C7 as claimed: where the fractional phase is 0 the triangle's amplitude
\* is -amp, and where it is 0.5 the amplitude is +amp.
C7_VerticesAsClaimed ==
    (call.op = "triangle_signal" /\ call.err = "") =>
        \A i \in 1..Len(call.frac) :
            /\ call.frac[i] = 0 => call.out_y_val[i] = -call.amp
            /\ 2 * call.frac[i] = D => call.out_y_val[i] = call.amp

\* C7 as amended: where the fractional phase is 0 the triangle's amplitude
\* is +amp, and where it is 0.5 the amplitude is -amp.
C7_Vertices ==
    (call.op = "triangle_signal" /\ call.err = "") =>
        \A i \in 1..Len(call.frac) :
            /\ call.frac[i] = 0 => call.out_y_val[i] = call.amp
            /\ 2 * call.frac[i] = D => call.out_y_val[i] = -call.amp

C7_Witness ==
    /\ call.op = "triangle_signal"
    /\ call.err = ""
    /\ \E i \in 1..Len(call.frac) : call.frac[i] = 0
    /\ \E i \in 1..Len(call.frac) : 2 * call.frac[i] = D

\* C9: every fractional phase of triangle_signal lies in [0, 1), so every
\* amplitude lies in [-|amp|, |amp|], and len(y) = len(t).
C9_PhaseAndRange ==
    (call.op = "triangle_signal" /\ call.err = "") =>
        /\ Len(call.out_y_val) = Len(call.out_t_val)
        /\ \A i \in 1..Len(call.frac) :
              /\ 0 <= call.frac[i] /\ call.frac[i] < D
              /\ Abs(call.out_y_val[i]) <= Abs(call.amp)

\* C3: time_shift returns t' with t'[i] = t[i] + tau for every i (the
\* addition of the program's arithmetic) and y' equal to y sample for
\* sample, with the length of the input.
C3_ShiftExact ==
    (call.op = "time_shift" /\ call.err = "") =>
        /\ Len(call.out_t_val) = Len(call.in_t_val)
        /\ \A i \in 1..Len(call.in_t_val) :
              call.out_t_val[i] = FAdd(call.in_t_val[i], call.tau)
        /\ call.out_y_val = call.in_y_val

C3_Witness ==
    /\ call.op = "time_shift"
    /\ call.err = ""
    /\ Len(call.in_t_val) >= 2
    /\ call.out_t_val # call.in_t_val

\* The reference for C4 and C5: res is the piecewise-linear interpolation
\* of (t, y) at q, with fill outside [min(t), max(t)].  Inside, res is the
\* value of a sample whose time is q when there is one, and otherwise the
\* line through the two samples that bracket q, evaluated at q.
Lerp(x0, y0, x1, y1, q) ==
    FAdd(FMul(FDiv(FSub(y1, y0), FSub(x1, x0)), FSub(q, x0)), y0)

Interpolates(q, t, y, fill, res) ==
    LET n == Len(t)
    IN  IF q < t[1] \/ q > t[n] THEN res = fill
        ELSE IF \E k \in 1..n : t[k] = q
        THEN \E k \in 1..n : t[k] = q /\ res = y[k]
        ELSE \E k \in 1..n - 1 :
                /\ t[k] < q /\ q < t[k + 1]
                /\ res = Lerp(t[k], y[k], t[k + 1], y[k + 1], q)

ScaleResult(nonempty) ==
    (/\ call.op = "time_scale"
     /\ call.a # 0
     /\ Len(call.in_t_val) = Len(call.in_y_val)
     /\ nonempty => Len(call.in_t_val) >= 1) =>
        /\ call.err = ""
        /\ call.out_t_val = call.in_t_val
        /\ Len(call.out_y_val) = Len(call.in_t_val)
        /\ \A i \in 1..Len(call.in_t_val) :
              Interpolates(FMul(call.a, call.in_t_val[i]),
                           call.in_t_val, call.in_y_val, call.fill,
                           call.out_y_val[i])

ShiftScaleResult(nonempty) ==
    (/\ call.op = "time_shift_and_scale"
     /\ call.a # 0
     /\ Len(call.in_t_val) = Len(call.in_y_val)
     /\ nonempty => Len(call.in_t_val) >= 1) =>
        /\ call.err = ""
        /\ call.out_t_val = call.in_t_val
        /\ Len(call.out_y_val) = Len(call.in_t_val)
        /\ \A i \in 1..Len(call.in_t_val) :
              Interpolates(FSub(FMul(call.a, call.in_t_val[i]), call.tau),
                           call.in_t_val, call.in_y_val, call.fill,
                           call.out_y_val[i])

C6_FailFast ==
    call.op \in Transforms =>
        /\ (call.op # "time_shift" /\ call.a = 0)
               => call.err = "InvalidScaleFactor"
        /\ Len(call.in_t_val) # Len(call.in_y_val)
               => call.err \in {"LengthMismatch", "InvalidScaleFactor"}
        /\ (Len(call.in_t_val) # Len(call.in_y_val)
               /\ (call.op = "time_shift" \/ call.a # 0))
               => call.err = "LengthMismatch"
        /\ call.err # "" =>
               /\ call.out_t = 0 /\ call.out_y = 0
               /\ call.out_t_val = << >> /\ call.out_y_val = << >>
               /\ call.in_t_after = call.in_t_val
               /\ call.in_y_after = call.in_y_val
               /\ cur = [t |-> call.in_t, y |-> call.in_y]
               /\ heap[call.in_t] = call.in_t_val
               /\ heap[call.in_y] = call.in_y_val
               /\ Len(heap) = 2

C6_Witness ==
    /\ call.op = "time_scale"
    /\ call.a # 0
    /\ Len(call.in_t_val) > Len(call.in_y_val)
    /\ Len(call.in_y_val) >= 1
    /\ call.err = "LengthMismatch"

NonDecreasing(t) == \A i \in 1..Len(t) - 1 : t[i] <= t[i + 1]

\* C8 as claimed: after a generator and any sequence of successful
\* transforms, the current pair has len(t) = len(y), the length the
\* generator returned, and t strictly increasing.  (The claim's spacing of
\* exactly 1/fs is read up to the rounding of the arithmetic and is not
\* part of this formula.)
C8_SeriesAsClaimed ==
    (gen.len > 0 /\ ~written) =>
        LET t == heap[cur.t]
            y == heap[cur.y]
        IN  /\ Len(t) = Len(y)
            /\ Len(t) = gen.len
            /\ \A i \in 1..Len(t) - 1 : t[i] < t[i + 1]

\* C8 as amended: the current pair has len(t) = len(y), the length the
\* generator returned (at least one sample), and t non-decreasing.
C8_Series ==
    (gen.len > 0 /\ ~written) =>
        LET t == heap[cur.t]
            y == heap[cur.y]
        IN  /\ Len(t) = Len(y)
            /\ Len(t) = gen.len
            /\ NonDecreasing(t)

\* Two successful transforms after a generator, the time grid shifted.
C8_Witness ==
    /\ gen.len >= 2
    /\ budget = 0
    /\ ~written
    /\ call.op = "time_shift_and_scale"
    /\ call.err = ""
    /\ heap[cur.t] # heap[1]

\* C10 as claimed: a transform leaves its inputs unmodified and neither
\* array it returns is one of its input arrays, so a later write by the
\* caller into a returned array never changes an input.
C10_FreshAsClaimed ==
    (call.op \in Transforms /\ call.err = "") =>
        /\ call.in_t_after = call.in_t_val
        /\ call.in_y_after = call.in_y_val
        /\ call.out_t \notin {call.in_t, call.in_y}
        /\ call.out_y \notin {call.in_t, call.in_y}
        /\ heap[call.in_t] = call.in_t_val
        /\ heap[call.in_y] = call.in_y_val

\* C10 as amended: a transform leaves its inputs unmodified; time_shift
\* returns a new time array and the very amplitude array it was given;
\* time_scale and time_shift_and_scale return the very time array they were
\* given and a new amplitude array.  A later write by the caller changes an
\* input only through the returned array that is that input.
C10_Aliasing ==
    (call.op \in Transforms /\ call.err = "") =>
        /\ call.in_t_after = call.in_t_val
        /\ call.in_y_after = call.in_y_val
        /\ call.op = "time_shift" =>
              /\ call.out_y = call.in_y
              /\ call.out_t \notin {call.in_t, call.in_y}
              /\ heap[call.in_t] = call.in_t_val
        /\ call.op # "time_shift" =>
              /\ call.out_t = call.in_t
              /\ call.out_y \notin {call.in_t, call.in_y}
              /\ heap[call.in_y] = call.in_y_val
        /\ ~written =>
              /\ heap[call.in_t] = call.in_t_val
              /\ heap[call.in_y] = call.in_y_val

\* The caller wrote into the amplitude array time_shift returned, and the
\* input amplitudes changed with it.
C10_Witness ==
    /\ call.op = "time_shift"
    /\ call.err = ""
    /\ written
    /\ heap[call.in_y] # call.in_y_val

====
